---- MODULE Spec2Model ----
(***************************************************************************)
(* The fluid-gradient hero of the portfolio page (src/script.js): the      *)
(* FluidGradient object, its ping-pong render targets, the per-frame       *)
(* driver animate(), and the pointer / resize handlers, together with the  *)
(* page start-up code that calls FluidGradient.init().                     *)
(*                                                                         *)
(* JavaScript runs every handler to completion, so one handler is one      *)
(* action.  Inside a handler the statements are composed in source order   *)
(* as functions on the record fg; the render calls and the other steps of  *)
(* a tick are appended to fg.log as they execute, so the order of the      *)
(* steps inside one tick is visible in the state the tick leaves.          *)
(***************************************************************************)
EXTENDS Integers, Sequences, FiniteSets, TLC

VARIABLES
    fg,             \* the FluidGradient object, its three.js objects and host registrations
    now,            \* performance.now(), in ms
    window,         \* <<window.innerWidth, window.innerHeight>>
    canvasPresent,  \* document.querySelector(".gradient-canvas") finds an element
    lastOp,         \* history: the handler that ran last
    moves,          \* history: the raw data of the last two mousemove events
    left,           \* history: a mouseleave happened after the last mousemove
    resized,        \* history: a resize happened after the last tick
    lastTick,       \* history: buffers read / written by the simulation pass of the last tick
    ticksSince,     \* history: ticks completed since init() or since the last resize
    variant,        \* which of the three DOMContentLoaded handlers the page runs
    pg,             \* the page: PreloaderAnimation, TextAnimation, pending timers
    escapes,        \* number of Escape key presses so far
    pc              \* the PreloaderComponent script: its instances, overlays and pending callbacks

fluidVars == <<fg, now, window, canvasPresent, lastOp, moves, left, resized, lastTick,
               ticksSince>>
pageVars == <<variant, pg, escapes, pc>>
vars == <<fg, now, window, canvasPresent, lastOp, moves, left, resized, lastTick,
          ticksSince, variant, pg, escapes, pc>>

(***************************************************************************)
(* Bounds of the model.                                                    *)
(***************************************************************************)
MaxTime == 200
ClockStep == 50
MaxFrames == 3
MaxEscapes == 2
MaxSvgs == 3
MaxTuned == 1
MaxInstances == 2
MaxShows == 2
MaxFades == 1
TicksPerStep == 25

(***************************************************************************)
(* Inputs the environment can deliver.                                     *)
(***************************************************************************)
WindowSizes == {<<8, 6>>, <<10, 7>>}
Clients == {<<3, 2>>, <<7, 5>>}
Rects == {[left |-> 0, top |-> 0, height |-> 8],
          [left |-> 1, top |-> 2, height |-> 10]}

(***************************************************************************)
(* Program constants.                                                      *)
(***************************************************************************)
IdleTimeout == 100

Zero4 == <<0, 0, 0, 0>>

Targets == {"fluidTarget1", "fluidTarget2"}

\* WebGLRenderTarget.texture: each target owns one texture.
Texture(t) == IF t = "fluidTarget1" THEN "texture1"
              ELSE IF t = "fluidTarget2" THEN "texture2"
              ELSE "undefined"

\* The render target that owns a texture.
TargetOf(x) == IF x = "texture1" THEN "fluidTarget1"
               ELSE IF x = "texture2" THEN "fluidTarget2"
               ELSE "undefined"

\* One entry of the log of a tick.
Op(op, a, b, c) == [op |-> op, a |-> a, b |-> b, c |-> c]

Logged(s, e) == [s EXCEPT !.log = Append(@, e)]

(***************************************************************************)
(* hexToRgb and the JavaScript library functions it calls.  A string is    *)
(* the sequence of its characters; a number is a record that is either NaN *)
(* or the exact fraction num / den.                                        *)
(***************************************************************************)
DecimalDigits == <<"0", "1", "2", "3", "4", "5", "6", "7", "8", "9">>
LowerLetters == <<"a", "b", "c", "d", "e", "f">>
UpperLetters == <<"A", "B", "C", "D", "E", "F">>

\* The value of a character as a base-16 digit, -1 if it is not one.
DigitValue(ch) ==
    IF \E i \in 1..10 : DecimalDigits[i] = ch
    THEN (CHOOSE i \in 1..10 : DecimalDigits[i] = ch) - 1
    ELSE IF \E i \in 1..6 : LowerLetters[i] = ch
    THEN (CHOOSE i \in 1..6 : LowerLetters[i] = ch) + 9
    ELSE IF \E i \in 1..6 : UpperLetters[i] = ch
    THEN (CHOOSE i \in 1..6 : UpperLetters[i] = ch) + 9
    ELSE -1

\* String.prototype.slice(start, end) for 0 <= start, end: the characters at
\* the 0-based positions start .. end-1 that exist.
slice(str, start, end) ==
    SubSeq(str, start + 1, IF end > Len(str) THEN Len(str) ELSE end)

Number(n) == [nan |-> FALSE, num |-> n, den |-> 1]
NaN == [nan |-> TRUE, num |-> 0, den |-> 1]

\* The longest prefix of str made of base-16 digits.
RECURSIVE DigitPrefix(_)
DigitPrefix(str) ==
    IF str = <<>> \/ DigitValue(Head(str)) < 0 THEN <<>>
    ELSE <<Head(str)>> \o DigitPrefix(Tail(str))

RECURSIVE DigitsValue(_)
DigitsValue(str) ==
    IF str = <<>> THEN 0
    ELSE 16 * DigitsValue(SubSeq(str, 1, Len(str) - 1)) + DigitValue(str[Len(str)])

\* parseInt(str, 16) on a string without white space, sign or 0x prefix: the
\* value of the leading digits, NaN when there is none.
parseInt16(str) ==
    IF DigitPrefix(str) = <<>> THEN NaN ELSE Number(DigitsValue(DigitPrefix(str)))

\* x / d for an integer x.
DividedBy(x, d) == IF x.nan THEN NaN ELSE [nan |-> FALSE, num |-> x.num, den |-> d]

\* hexToRgb that reads the digit pairs one character too early.
hexToRgbShifted(hex) ==
    << DividedBy(parseInt16(slice(hex, 0, 2)), 255),
       DividedBy(parseInt16(slice(hex, 2, 4)), 255),
       DividedBy(parseInt16(slice(hex, 4, 6)), 255) >>

hexToRgb(hex) ==
    << DividedBy(parseInt16(slice(hex, 1, 3)), 255),
       DividedBy(parseInt16(slice(hex, 3, 5)), 255),
       DividedBy(parseInt16(slice(hex, 5, 7)), 255) >>

\* The string "#" followed by six copies of one character.
Grey(ch) == <<"#", ch, ch, ch, ch, ch, ch>>

\* this.config as the constructor sets it; the numbers are in hundredths.
ConfigNew ==
    [ brushSize |-> 2500, brushStrength |-> 50, distortionAmount |-> 250,
      fluidDecay |-> 98, trailLength |-> 80, stopDecay |-> 85,
      color1 |-> Grey("0"), color2 |-> Grey("1"),
      color3 |-> Grey("2"), color4 |-> Grey("3"),
      colorIntensity |-> 100, softness |-> 100 ]

ConfigKeys == DOMAIN ConfigNew
ColorKeys == {"color1", "color2", "color3", "color4"}

\* The uniforms setupMaterials takes from config, as it computes them.
FluidTunables(config) ==
    [ uBrushSize |-> config.brushSize, uBrushStrength |-> config.brushStrength,
      uFluidDecay |-> config.fluidDecay, uTrailLength |-> config.trailLength,
      uStopDecay |-> config.stopDecay ]

DisplayTunables(config) ==
    [ uDistortionAmount |-> config.distortionAmount,
      uColor1 |-> hexToRgb(config.color1), uColor2 |-> hexToRgb(config.color2),
      uColor3 |-> hexToRgb(config.color3), uColor4 |-> hexToRgb(config.color4),
      uColorIntensity |-> config.colorIntensity, uSoftness |-> config.softness ]

(***************************************************************************)
(* new FluidGradient(): the fields set by the constructor.  The three.js   *)
(* objects do not exist yet; their fields hold placeholders until init().  *)
(***************************************************************************)
FluidGradientNew ==
    [ config |-> ConfigNew,
      mouseX |-> 0, mouseY |-> 0, prevMouseX |-> 0, prevMouseY |-> 0,
      lastMoveTime |-> 0, frameCount |-> 0, isInitialized |-> FALSE,
      renderers |-> 0,
      rendererSize |-> <<0, 0>>,
      renderTarget |-> "null",
      targetSize |-> [t \in Targets |-> <<0, 0>>],
      currentFluidTarget |-> "undefined",
      previousFluidTarget |-> "undefined",
      fluidUniforms |-> [iResolution |-> <<0, 0>>, iMouse |-> Zero4,
                         iFrame |-> 0, iPreviousFrame |-> "null",
                         tunables |-> [k \in DOMAIN FluidTunables(ConfigNew) |-> 0]],
      displayUniforms |-> [iResolution |-> <<0, 0>>, iFluid |-> "null",
                           tunables |-> [k \in DOMAIN DisplayTunables(ConfigNew) |-> 0]],
      listeners |-> 0,
      rafPending |-> 0,
      log |-> <<>> ]

(***************************************************************************)
(* init(): renderer creation, lines 143-147.                               *)
(***************************************************************************)
createRenderer(s, win) ==
    [s EXCEPT !.renderers = @ + 1, !.rendererSize = win, !.renderTarget = "null"]

setupRenderTargets(s, win) ==
    [s EXCEPT !.targetSize = [t \in Targets |-> win],
              !.currentFluidTarget = "fluidTarget1",
              !.previousFluidTarget = "fluidTarget2"]

setupMaterials(s, win) ==
    [s EXCEPT !.fluidUniforms = [iResolution |-> win, iMouse |-> Zero4,
                                 iFrame |-> 0, iPreviousFrame |-> "null",
                                 tunables |-> FluidTunables(s.config)],
              !.displayUniforms = [iResolution |-> win, iFluid |-> "null",
                                   tunables |-> DisplayTunables(s.config)]]

\* setupEventListeners registers one mousemove, one mouseleave and one resize listener.
setupEventListeners(s) == [s EXCEPT !.listeners = @ + 1]

(***************************************************************************)
(* The statements of animate(), in source order.                           *)
(***************************************************************************)
\* requestNextFrame that registers the callback twice.
requestNextFrameTwice(s) ==
    Logged([s EXCEPT !.rafPending = @ + 2], Op("requestAnimationFrame", "", "", <<>>))

requestNextFrame(s) ==
    Logged([s EXCEPT !.rafPending = @ + 1], Op("requestAnimationFrame", "", "", <<>>))

\* iTime is written to both materials; its value is read by the shaders only.
setTime(s) == Logged(s, Op("setUniform", "iTime", "", <<>>))

setFrame(s) ==
    Logged([s EXCEPT !.fluidUniforms.iFrame = s.frameCount],
           Op("setUniform", "iFrame", "", <<>>))

\* idleDecay with the elapsed time taken the wrong way round: it never fires.
idleDecayReversed(s, t) ==
    IF s.lastMoveTime - t > IdleTimeout
    THEN Logged([s EXCEPT !.fluidUniforms.iMouse = Zero4],
                Op("setUniform", "iMouse", "", <<>>))
    ELSE s

idleDecay(s, t) ==
    IF t - s.lastMoveTime > IdleTimeout
    THEN Logged([s EXCEPT !.fluidUniforms.iMouse = Zero4],
                Op("setUniform", "iMouse", "", <<>>))
    ELSE s

bindPreviousFrame(s) ==
    Logged([s EXCEPT !.fluidUniforms.iPreviousFrame = Texture(s.previousFluidTarget)],
           Op("setUniform", "iPreviousFrame", Texture(s.previousFluidTarget), <<>>))

setRenderTarget(s, t) ==
    Logged([s EXCEPT !.renderTarget = t], Op("setRenderTarget", t, "", <<>>))

\* renderer.render(plane, camera): draws the plane's material into the bound
\* render target, reading the material's sampler and uniforms as they are now.
render(s, plane) ==
    IF plane = "fluidPlane"
    THEN Logged(s, Op("render", "fluidPlane", s.renderTarget,
                      <<s.fluidUniforms.iPreviousFrame, s.fluidUniforms.iMouse,
                        s.fluidUniforms.iFrame, s.fluidUniforms.iResolution,
                        s.targetSize>>))
    ELSE Logged(s, Op("render", "displayPlane", s.renderTarget,
                      <<s.displayUniforms.iFluid, s.displayUniforms.iResolution>>))

bindFluid(s) ==
    Logged([s EXCEPT !.displayUniforms.iFluid = Texture(s.currentFluidTarget)],
           Op("setUniform", "iFluid", Texture(s.currentFluidTarget), <<>>))

\* swapTargets without the temporary: both roles end on the same buffer.
swapTargetsNoTemp(s) ==
    LET s1 == [s EXCEPT !.currentFluidTarget = s.previousFluidTarget]
    IN  Logged([s1 EXCEPT !.previousFluidTarget = s1.currentFluidTarget],
               Op("swap", "", "", <<>>))

\* swapTargets that leaves the roles as they are.
swapTargetsNone(s) == Logged(s, Op("swap", "", "", <<>>))

swapTargets(s) ==
    LET temp == s.currentFluidTarget
    IN  Logged([s EXCEPT !.currentFluidTarget = s.previousFluidTarget,
                         !.previousFluidTarget = temp],
               Op("swap", "", "", <<>>))

\* incrementFrame that adds two.
incrementFrameTwice(s) ==
    Logged([s EXCEPT !.frameCount = @ + 2], Op("frameCount++", "", "", <<>>))

incrementFrame(s) ==
    Logged([s EXCEPT !.frameCount = @ + 1], Op("frameCount++", "", "", <<>>))

\* animate with the request for the next frame as its last statement.
animateRequestLast(s, t) ==
    LET s0  == [s EXCEPT !.log = <<>>]
        s2  == setTime(s0)
        s3  == setFrame(s2)
        s4  == idleDecay(s3, t)
        s5  == bindPreviousFrame(s4)
        s6  == setRenderTarget(s5, s5.currentFluidTarget)
        s7  == render(s6, "fluidPlane")
        s8  == bindFluid(s7)
        s9  == setRenderTarget(s8, "null")
        s10 == render(s9, "displayPlane")
        s11 == swapTargets(s10)
        s12 == incrementFrame(s11)
    IN  requestNextFrame(s12)

\* animate that copies config to the tunable uniforms on every tick.
animateRefresh(s, t) ==
    LET s0  == [s EXCEPT !.log = <<>>,
                         !.fluidUniforms.tunables = FluidTunables(s.config),
                         !.displayUniforms.tunables = DisplayTunables(s.config)]
        s1  == requestNextFrame(s0)
        s2  == setTime(s1)
        s3  == setFrame(s2)
        s4  == idleDecay(s3, t)
        s5  == bindPreviousFrame(s4)
        s6  == setRenderTarget(s5, s5.currentFluidTarget)
        s7  == render(s6, "fluidPlane")
        s8  == bindFluid(s7)
        s9  == setRenderTarget(s8, "null")
        s10 == render(s9, "displayPlane")
        s11 == swapTargets(s10)
    IN  incrementFrame(s11)

\* animate that never requests the next frame.
animateNoRequest(s, t) ==
    LET s0  == [s EXCEPT !.log = <<>>]
        s2  == setTime(s0)
        s3  == setFrame(s2)
        s4  == idleDecay(s3, t)
        s5  == bindPreviousFrame(s4)
        s6  == setRenderTarget(s5, s5.currentFluidTarget)
        s7  == render(s6, "fluidPlane")
        s8  == bindFluid(s7)
        s9  == setRenderTarget(s8, "null")
        s10 == render(s9, "displayPlane")
        s11 == swapTargets(s10)
    IN  incrementFrame(s11)

\* animate with the swap moved between the two passes.
animateSwapEarly(s, t) ==
    LET s0  == [s EXCEPT !.log = <<>>]
        s1  == requestNextFrame(s0)
        s2  == setTime(s1)
        s3  == setFrame(s2)
        s4  == idleDecay(s3, t)
        s5  == bindPreviousFrame(s4)
        s6  == setRenderTarget(s5, s5.currentFluidTarget)
        s7  == render(s6, "fluidPlane")
        s8  == swapTargets(s7)
        s9  == bindFluid(s8)
        s10 == setRenderTarget(s9, "null")
        s11 == render(s10, "displayPlane")
    IN  incrementFrame(s11)

animate(s, t) ==
    LET s0  == [s EXCEPT !.log = <<>>]
        s1  == requestNextFrame(s0)
        s2  == setTime(s1)
        s3  == setFrame(s2)
        s4  == idleDecay(s3, t)
        s5  == bindPreviousFrame(s4)
        s6  == setRenderTarget(s5, s5.currentFluidTarget)
        s7  == render(s6, "fluidPlane")
        s8  == bindFluid(s7)
        s9  == setRenderTarget(s8, "null")
        s10 == render(s9, "displayPlane")
        s11 == swapTargets(s10)
    IN  incrementFrame(s11)

\* init without the test for the missing .gradient-canvas element.
initNoCanvasCheck(s, win, t, canvas) ==
    IF s.isInitialized THEN s
    ELSE LET s1 == createRenderer(s, win)
             s2 == setupRenderTargets(s1, win)
             s3 == setupMaterials(s2, win)
             s4 == setupEventListeners(s3)
             s5 == [s4 EXCEPT !.isInitialized = TRUE]
         IN  animate(s5, t)

\* init without the isInitialized guard.
initUnguarded(s, win, t, canvas) ==
    IF ~canvas THEN s
    ELSE LET s1 == createRenderer(s, win)
             s2 == setupRenderTargets(s1, win)
             s3 == setupMaterials(s2, win)
             s4 == setupEventListeners(s3)
             s5 == [s4 EXCEPT !.isInitialized = TRUE]
         IN  animate(s5, t)

init(s, win, t, canvas) ==
    IF s.isInitialized THEN s
    ELSE IF ~canvas THEN s
    ELSE LET s1 == createRenderer(s, win)
             s2 == setupRenderTargets(s1, win)
             s3 == setupMaterials(s2, win)
             s4 == setupEventListeners(s3)
             s5 == [s4 EXCEPT !.isInitialized = TRUE]
         IN  animate(s5, t)

(***************************************************************************)
(* The event handlers registered by setupEventListeners.                   *)
(***************************************************************************)
\* e = <<clientX, clientY>>, rect = gradientCanvas.getBoundingClientRect()
\* onMouseMove that records the previous position after overwriting the current one.
onMouseMovePrevLate(s, e, rect, t) ==
    LET s1 == [s  EXCEPT !.mouseX = e[1] - rect.left,
                         !.mouseY = rect.height - (e[2] - rect.top)]
        s2 == [s1 EXCEPT !.prevMouseX = s1.mouseX, !.prevMouseY = s1.mouseY]
        s3 == [s2 EXCEPT !.lastMoveTime = t]
    IN  [s3 EXCEPT !.fluidUniforms.iMouse =
                       <<s3.mouseX, s3.mouseY, s3.prevMouseX, s3.prevMouseY>>]

onMouseMove(s, e, rect, t) ==
    LET s1 == [s  EXCEPT !.prevMouseX = s.mouseX, !.prevMouseY = s.mouseY]
        s2 == [s1 EXCEPT !.mouseX = e[1] - rect.left,
                         !.mouseY = rect.height - (e[2] - rect.top)]
        s3 == [s2 EXCEPT !.lastMoveTime = t]
    IN  [s3 EXCEPT !.fluidUniforms.iMouse =
                       <<s3.mouseX, s3.mouseY, s3.prevMouseX, s3.prevMouseY>>]

\* onMouseLeave that does nothing.
onMouseLeaveNone(s) == s

\* onMouseLeave that also restarts the frame index.
onMouseLeaveResetsFrame(s) ==
    [s EXCEPT !.fluidUniforms.iMouse = Zero4, !.frameCount = 0]

onMouseLeave(s) == [s EXCEPT !.fluidUniforms.iMouse = Zero4]

\* onResize that keeps the frame count.
onResizeKeepFrame(s, win) ==
    [s EXCEPT !.rendererSize = win,
              !.fluidUniforms.iResolution = win,
              !.displayUniforms.iResolution = win,
              !.targetSize = [t \in Targets |-> win]]

\* onResize that resizes only the first render target.
onResizeOneTarget(s, win) ==
    [s EXCEPT !.rendererSize = win,
              !.fluidUniforms.iResolution = win,
              !.displayUniforms.iResolution = win,
              !.targetSize["fluidTarget1"] = win,
              !.frameCount = 0]

onResize(s, win) ==
    [s EXCEPT !.rendererSize = win,
              !.fluidUniforms.iResolution = win,
              !.displayUniforms.iResolution = win,
              !.targetSize = [t \in Targets |-> win],
              !.frameCount = 0]

(***************************************************************************)
(* Reading the log of a tick.                                              *)
(***************************************************************************)
\* The positions in the log of the steps of one kind.
Positions(log, op, a) == {i \in 1..Len(log) : log[i].op = op /\ log[i].a = a}

Count(log, op, a) == Cardinality(Positions(log, op, a))
Pos(log, op, a) == CHOOSE i \in Positions(log, op, a) : TRUE

SimRender(log) == log[Pos(log, "render", "fluidPlane")]
DisplayRender(log) == log[Pos(log, "render", "displayPlane")]

\* What the tick recorded in log gave the simulation pass.
TickSummary(log) ==
    [read |-> TargetOf(SimRender(log).c[1]), write |-> SimRender(log).b]

(***************************************************************************)
(* The page: PreloaderAnimation, the DOMContentLoaded handlers and the     *)
(* timers they start.  pg.timers counts the pending setTimeout callbacks   *)
(* of each kind; pg.tweens is the queue of '.revealer svg' tweens still    *)
(* running, in the order in which they complete.                           *)
(***************************************************************************)
Variants == {"script", "part1a", "part1b"}
TimerKinds == {"init200", "text500", "esc100", "remove900"}

\* The tweens of setupAnimation for n svg elements, in completion order: the
\* elements past the delays array get no delay and complete first.
RECURSIVE Range(_, _)
Range(a, b) == IF a > b THEN <<>> ELSE <<a>> \o Range(a + 1, b)

RevealTweens(n) ==
    Range(3, n - 1) \o Range(0, IF n - 1 < 2 THEN n - 1 ELSE 2)

\* new PreloaderAnimation(options): constructor and init()
PreloaderNew(present, main, n) ==
    [ preloader |-> IF present THEN "visible" ELSE "absent",
      svgs |-> n,
      tweens |-> IF present THEN RevealTweens(n) ELSE <<>>,
      timers |-> [k \in TimerKinds |-> 0],
      mainPresent |-> main,
      mainLoaded |-> FALSE,
      initCalls |-> 0,
      completes |-> 0,
      textInitialized |-> FALSE,
      textSetups |-> 0 ]

setTimeout(p, k) == [p EXCEPT !.timers[k] = @ + 1]

\* An onComplete option that does nothing.
onCompleteNone(p, v) == p

\* The onComplete option each DOMContentLoaded handler passes to the preloader.
onComplete(p, v) ==
    IF v = "script" THEN setTimeout(setTimeout(p, "init200"), "text500")
    ELSE setTimeout(p, "init200")

completeAnimation(p, v) ==
    LET p1 == IF p.preloader # "absent"
              THEN setTimeout([p EXCEPT !.preloader =
                                   IF @ = "removed" THEN @ ELSE "hidden"], "remove900")
              ELSE p
        p2 == [p1 EXCEPT !.mainLoaded = IF p.mainPresent THEN TRUE ELSE @,
                         !.completes = @ + 1]
    IN  onComplete(p2, v)

\* The page calls fluidGradient.init(); pg.initCalls counts these calls.
callsInit(p) == [p EXCEPT !.initCalls = @ + 1]

skipAnimation(p, v) == completeAnimation([p EXCEPT !.tweens = <<>>], v)

\* TextAnimation.init() of script.js, guarded by isInitialized.
textInit(p) ==
    IF p.textInitialized THEN p
    ELSE [p EXCEPT !.textSetups = @ + 1, !.textInitialized = TRUE]

\* new TextAnimation() of the second page script: the constructor calls init().
textNew(p) == [p EXCEPT !.textSetups = @ + 1]

\* fg.log describes the tick that has just run: any later step drops it.
Untick(s) == [s EXCEPT !.log = <<>>]

(***************************************************************************)
(* The PreloaderComponent script (src/unnamed/part_000).  pc.inst holds    *)
(* the instances created so far, each with the overlay element its         *)
(* injectHTML inserted; pc.seqs holds the show sequences started so far,   *)
(* each at the asynchronous step it waits for; pc.fired is what the last   *)
(* handler invoked: callbacks, the 'preloaderComplete' event, an uncaught  *)
(* TypeError.  Progress is counted in hundredths of a percent.             *)
(***************************************************************************)
Instances == 1..MaxInstances
Libraries == {"none", "gsap", "gsap+SplitText"}

Full == 10000
FallbackSteps == 50

InstNew ==
    [ made |-> FALSE, destroyed |-> FALSE,
      autoStart |-> FALSE, useGSAP |-> FALSE,
      isActive |-> FALSE,
      timeline |-> 0,
      elements |-> "unset",
      overlay |-> [inDoc |-> FALSE, hidden |-> FALSE, fadeOut |-> FALSE],
      fades |-> 0 ]

PcNew ==
    [ libs |-> "none",
      inst |-> [i \in Instances |-> InstNew],
      seqs |-> <<>>,
      preloaderInstance |-> 0,
      loaded |-> FALSE,
      fired |-> {} ]

\* What a handler invokes is recorded in pc.fired.
Fire(w, i, kind, arg) == [w EXCEPT !.fired = @ \cup {<<i, kind, arg>>}]

\* An uncaught TypeError: reading a property of undefined.
Throw(w, i) == Fire(w, i, "TypeError", 0)

\* document.getElementById('preloader-overlay'): the overlay in the document that
\* was inserted last (insertAdjacentHTML('afterbegin') puts it first), 0 if none.
ExistingOverlay(w) ==
    IF \E i \in Instances : w.inst[i].overlay.inDoc
    THEN CHOOSE i \in Instances :
             /\ w.inst[i].overlay.inDoc
             /\ \A j \in Instances : w.inst[j].overlay.inDoc => j <= i
    ELSE 0

injectHTML(w, i) ==
    LET e  == ExistingOverlay(w)
        w1 == IF e # 0 THEN [w EXCEPT !.inst[e].overlay.inDoc = FALSE] ELSE w
    IN  [w1 EXCEPT !.inst[i].overlay = [inDoc |-> TRUE, hidden |-> FALSE, fadeOut |-> FALSE]]

setupElements(w, i) == [w EXCEPT !.inst[i].elements = "set"]

\* show() up to its first await.
show(w, i) ==
    IF w.inst[i].isActive THEN w
    ELSE LET w1 == [w EXCEPT !.inst[i].isActive = TRUE]
         IN  IF w1.inst[i].elements # "set" THEN Throw(w1, i)
             ELSE [w1 EXCEPT !.inst[i].overlay.hidden = FALSE,
                             !.inst[i].overlay.fadeOut = FALSE,
                             !.seqs = Append(@, [inst |-> i, stage |-> "fonts",
                                                 progress |-> 0, ticks |-> 0])]

\* new PreloaderComponent(options): constructor and init()
PreloaderComponentNew(w, i, autoStart) ==
    LET w1 == [w EXCEPT !.inst[i] = [InstNew EXCEPT !.made = TRUE,
                                                    !.autoStart = autoStart,
                                                    !.useGSAP = (w.libs # "none")]]
        w2 == setupElements(injectHTML(w1, i), i)
    IN  IF autoStart THEN show(w2, i) ELSE w2

\* handleComplete: isActive is cleared before the overlay is dereferenced.
handleComplete(w, i) ==
    LET w1 == [w EXCEPT !.inst[i].isActive = FALSE]
    IN  IF w1.inst[i].elements # "set" THEN Throw(w1, i)
        ELSE Fire(Fire([w1 EXCEPT !.inst[i].overlay.hidden = TRUE],
                       i, "onComplete", 0),
                  i, "preloaderComplete", 0)

\* hide(immediate) that marks the overlay hidden but leaves isActive set.
hideKeepsActive(w, i, immediate) ==
    IF ~w.inst[i].isActive THEN w
    ELSE IF immediate
    THEN [w EXCEPT !.inst[i].overlay.hidden = TRUE]
    ELSE IF w.inst[i].useGSAP /\ w.inst[i].timeline # 0 THEN w
    ELSE [w EXCEPT !.inst[i].overlay.fadeOut = TRUE, !.inst[i].fades = @ + 1]

hide(w, i, immediate) ==
    IF ~w.inst[i].isActive THEN w
    ELSE IF immediate
    THEN [w EXCEPT !.inst[i].overlay.hidden = TRUE, !.inst[i].isActive = FALSE]
    ELSE IF w.inst[i].useGSAP /\ w.inst[i].timeline # 0 THEN w
    ELSE [w EXCEPT !.inst[i].overlay.fadeOut = TRUE, !.inst[i].fades = @ + 1]

\* The callback of hide()'s setTimeout.
fadeDone(w, i) ==
    IF w.inst[i].elements # "set" THEN Throw(w, i)
    ELSE [w EXCEPT !.inst[i].overlay.hidden = TRUE, !.inst[i].isActive = FALSE]

\* timeline.kill() on the timeline stored in this.timeline.
killTimeline(w, i) ==
    LET k == w.inst[i].timeline
    IN  IF k # 0 /\ w.seqs[k].stage = "timeline"
        THEN [w EXCEPT !.seqs[k].stage = "killed"]
        ELSE w

destroy(w, i) ==
    LET w1 == killTimeline(w, i)
        w2 == IF w1.inst[i].elements = "set"
              THEN [w1 EXCEPT !.inst[i].overlay.inDoc = FALSE]
              ELSE w1
    IN  [w2 EXCEPT !.inst[i].isActive = FALSE,
                   !.inst[i].elements = "cleared",
                   !.inst[i].destroyed = TRUE]

\* The rest of show() once document.fonts.ready has resolved.  hasGSAP is what
\* createSplitTexts returned; showWithGSAP stores its timeline in this.timeline,
\* showWithoutGSAP awaits animateProgress, which is a gsap timeline when gsap is
\* loaded and the setInterval promise otherwise.
fontsReady(w, k, hasGSAP) ==
    LET i == w.seqs[k].inst
    IN  IF hasGSAP
        THEN [w EXCEPT !.seqs[k].stage = "timeline", !.inst[i].timeline = k]
        ELSE IF w.inst[i].elements # "set"
        THEN Throw([w EXCEPT !.seqs[k].stage = "dead"], i)
        ELSE IF w.inst[i].useGSAP
        THEN [w EXCEPT !.seqs[k].stage = "progressTimeline"]
        ELSE [w EXCEPT !.seqs[k].stage = "interval"]

\* The values createSplitTexts can return: false without gsap or SplitText,
\* otherwise true, or false when SplitText.create throws and the catch runs.
SplitResults(w, k) ==
    IF w.inst[w.seqs[k].inst].useGSAP /\ w.libs = "gsap+SplitText"
    THEN {TRUE, FALSE} ELSE {FALSE}

\* Math.random() in tenths.
Randoms == 0..9

\* (100 / steps) * (0.8 + Math.random() * 0.4)
Increment(r) == ((Full \div FallbackSteps) * (80 + 4 * r)) \div 100

Min(a, b) == IF a < b THEN a ELSE b

\* The setInterval callback without Math.min and with the interval left running.
intervalTickUnclamped(w, k, r) ==
    LET i  == w.seqs[k].inst
        p  == w.seqs[k].progress + Increment(r)
    IN  Fire([w EXCEPT !.seqs[k].progress = p, !.seqs[k].ticks = @ + 1],
             i, "onProgress", p)

\* The setInterval callback of animateProgressFallback; when it resolves the
\* promise, showWithoutGSAP resumes and starts the 500 ms timer.
intervalTick(w, k, r) ==
    LET i  == w.seqs[k].inst
        p  == Min(w.seqs[k].progress + Increment(r), Full)
        w1 == Fire([w EXCEPT !.seqs[k].progress = p, !.seqs[k].ticks = @ + 1],
                   i, "onProgress", p)
    IN  IF p >= Full THEN [w1 EXCEPT !.seqs[k].stage = "timer"] ELSE w1

\* n consecutive interval callbacks of one sequence, no other handler between
\* them; pc.fired collects what they invoke.
RECURSIVE intervalTicks(_, _, _, _)
intervalTicks(w, k, r, n) ==
    IF n = 0 \/ w.seqs[k].stage # "interval" THEN w
    ELSE intervalTicks(intervalTick(w, k, r), k, r, n - 1)

\* onUpdate of a tween of the gsap progress timeline.
timelineUpdate(w, k) == Fire(w, w.seqs[k].inst, "onProgress", Full)

\* onComplete of the last tween of the showWithGSAP timeline.
timelineComplete(w, k) ==
    handleComplete([w EXCEPT !.seqs[k].stage = "done"], w.seqs[k].inst)

\* The awaited gsap progress timeline ends; showWithoutGSAP starts the timer.
progressComplete(w, k) == [w EXCEPT !.seqs[k].stage = "timer"]

\* The callback of showWithoutGSAP's setTimeout.
timerComplete(w, k) ==
    handleComplete([w EXCEPT !.seqs[k].stage = "done"], w.seqs[k].inst)

\* window.showPreloader(options), creating instance j.
showPreloader(w, j, autoStart) ==
    LET w1 == IF w.preloaderInstance # 0 THEN destroy(w, w.preloaderInstance) ELSE w
    IN  [PreloaderComponentNew(w1, j, autoStart) EXCEPT !.preloaderInstance = j]

hidePreloader(w, immediate) ==
    IF w.preloaderInstance # 0 THEN hide(w, w.preloaderInstance, immediate) ELSE w

\* The DOMContentLoaded listener, creating instance j unless autoInit is false.
domContentLoaded(w, j, autoInit, autoStart) ==
    LET w1 == [w EXCEPT !.loaded = TRUE]
    IN  IF autoInit
        THEN [PreloaderComponentNew(w1, j, autoStart) EXCEPT !.preloaderInstance = j]
        ELSE w1

(***************************************************************************)
(* State after construction: DOMContentLoaded has created the              *)
(* FluidGradient object; init() has not been called.                       *)
(***************************************************************************)
FluidInit ==
    /\ fg = FluidGradientNew
    /\ now = 0
    /\ window \in WindowSizes
    /\ canvasPresent \in BOOLEAN
    /\ lastOp = "construct"
    /\ moves = <<>>
    /\ left = FALSE
    /\ resized = FALSE
    /\ lastTick = [read |-> "undefined", write |-> "undefined"]
    /\ ticksSince = 0

\* The component alone: the page is the one of script.js and takes no step.
Init ==
    /\ FluidInit
    /\ variant = "script"
    /\ pg = PreloaderNew(TRUE, TRUE, 3)
    /\ escapes = 0
    /\ pc = PcNew

\* The page after its DOMContentLoaded handler has run.
InitApp ==
    /\ FluidInit
    /\ variant \in Variants
    /\ \E present \in BOOLEAN, main \in BOOLEAN, n \in 0..MaxSvgs :
           pg = PreloaderNew(present, main, n)
    /\ escapes = 0
    /\ pc = PcNew

\* The host delivers a pending animation-frame callback: () => this.animate().
Animate ==
    /\ fg.rafPending > 0
    /\ fg.frameCount < MaxFrames
    /\ fg' = animate([fg EXCEPT !.rafPending = @ - 1], now)
    /\ lastOp' = "animate"
    /\ lastTick' = TickSummary(fg'.log)
    /\ resized' = FALSE
    /\ ticksSince' = ticksSince + 1
    /\ UNCHANGED <<now, window, canvasPresent, moves, left>>
    /\ UNCHANGED pageVars

MouseMove(e, rect) ==
    /\ fg.listeners > 0
    /\ fg' = Untick(onMouseMove(fg, e, rect, now))
    /\ lastOp' = "mousemove"
    /\ moves' = <<[x |-> e[1], y |-> e[2], rect |-> rect, t |-> now]>>
                \o (IF moves = <<>> THEN <<>> ELSE <<moves[1]>>)
    /\ left' = FALSE
    /\ UNCHANGED <<now, window, canvasPresent, resized, lastTick, ticksSince>>
    /\ UNCHANGED pageVars

MouseLeave ==
    /\ fg.listeners > 0
    /\ fg' = Untick(onMouseLeave(fg))
    /\ lastOp' = "mouseleave"
    /\ left' = TRUE
    /\ UNCHANGED <<now, window, canvasPresent, moves, resized, lastTick, ticksSince>>
    /\ UNCHANGED pageVars

\* The viewport changes size; the resize listener, if registered, runs.
Resize(win) ==
    /\ window' = win
    /\ fg' = IF fg.listeners > 0 THEN Untick(onResize(fg, win)) ELSE fg
    /\ lastOp' = "resize"
    /\ resized' = (fg.listeners > 0)
    /\ ticksSince' = IF fg.listeners > 0 THEN 0 ELSE ticksSince
    /\ UNCHANGED <<now, canvasPresent, moves, left, lastTick>>
    /\ UNCHANGED pageVars

\* Time passes.
Advance ==
    /\ now + ClockStep <= MaxTime
    /\ now' = now + ClockStep
    /\ fg' = Untick(fg)
    /\ lastOp' = "advance"
    /\ UNCHANGED <<window, canvasPresent, moves, left, resized, lastTick, ticksSince>>
    /\ UNCHANGED pageVars

(***************************************************************************)
(* The page-level actions.                                                 *)
(***************************************************************************)
\* fluidGradient.init() called from a page callback.
CallInit ==
    LET r == init(fg, window, now, canvasPresent)
        first == r.isInitialized /\ ~fg.isInitialized
    IN  /\ fg' = IF first THEN r ELSE Untick(r)
        /\ lastTick' = IF first THEN TickSummary(r.log) ELSE lastTick
        /\ resized' = IF first THEN FALSE ELSE resized
        /\ ticksSince' = IF first THEN 1 ELSE ticksSince
        /\ UNCHANGED <<now, window, canvasPresent, moves, left>>

NoFluid ==
    /\ fg' = Untick(fg)
    /\ UNCHANGED <<now, window, canvasPresent, moves, left, resized, lastTick, ticksSince>>

\* The next '.revealer svg' tween ends; the third one calls completeAnimation.
TweenComplete ==
    /\ pg.tweens # <<>>
    /\ pg' = LET p == [pg EXCEPT !.tweens = Tail(@)]
             IN  IF Head(pg.tweens) = 2 THEN completeAnimation(p, variant) ELSE p
    /\ lastOp' = "tween"
    /\ NoFluid
    /\ UNCHANGED <<variant, escapes, pc>>

\* keydown with e.key === "Escape"
EscapeKey ==
    /\ escapes < MaxEscapes
    /\ escapes' = escapes + 1
    /\ UNCHANGED <<variant, pc>>
    /\ IF variant = "script"
       THEN /\ pg' = setTimeout(skipAnimation(pg, variant), "esc100")
            /\ lastOp' = "escape"
            /\ NoFluid
       ELSE /\ pg' = IF variant = "part1b"
                     THEN textNew(callsInit(skipAnimation(pg, variant)))
                     ELSE callsInit(skipAnimation(pg, variant))
            /\ lastOp' = "escapeInit"
            /\ CallInit

\* A pending setTimeout callback runs.
TimerInit ==
    /\ pg.timers["init200"] > 0
    /\ pg' = LET p == callsInit([pg EXCEPT !.timers["init200"] = @ - 1])
             IN  IF variant = "part1b" THEN textNew(p) ELSE p
    /\ lastOp' = "timerInit"
    /\ CallInit
    /\ UNCHANGED <<variant, escapes, pc>>

TimerEscape ==
    /\ pg.timers["esc100"] > 0
    /\ pg' = textInit(callsInit([pg EXCEPT !.timers["esc100"] = @ - 1]))
    /\ lastOp' = "timerInit"
    /\ CallInit
    /\ UNCHANGED <<variant, escapes, pc>>

TimerText ==
    /\ pg.timers["text500"] > 0
    /\ pg' = textInit([pg EXCEPT !.timers["text500"] = @ - 1])
    /\ lastOp' = "timerText"
    /\ NoFluid
    /\ UNCHANGED <<variant, escapes, pc>>

TimerRemove ==
    /\ pg.timers["remove900"] > 0
    /\ pg' = [pg EXCEPT !.timers["remove900"] = @ - 1, !.preloader = "removed"]
    /\ lastOp' = "timerRemove"
    /\ NoFluid
    /\ UNCHANGED <<variant, escapes, pc>>

NextApp ==
    \/ TweenComplete
    \/ EscapeKey
    \/ TimerInit
    \/ TimerEscape
    \/ TimerText
    \/ TimerRemove
    \/ Animate
    \/ \E win \in WindowSizes : Resize(win)

SpecApp == InitApp /\ [][NextApp]_vars

\* The page when no key is pressed.  Every running tween ends and every pending
\* timer fires: gsap's ticker and the host's timer queue drop none.
NextAppIdle ==
    \/ TweenComplete
    \/ TimerInit
    \/ TimerText
    \/ TimerRemove
    \/ Animate
    \/ \E win \in WindowSizes : Resize(win)

\* WF_vars(TimerInit), with ENABLED <<TimerInit>>_vars written as the guard of
\* TimerInit (a step of TimerInit always changes pg.timers).
TimerInitFair ==
    []<>(pg.timers["init200"] = 0) \/ []<><<TimerInit>>_vars

SpecAppIdle ==
    /\ InitApp
    /\ [][NextAppIdle]_vars
    /\ WF_vars(TweenComplete)
    /\ TimerInitFair
    /\ WF_vars(TimerText)
    /\ WF_vars(TimerRemove)

\* Some caller invokes fluidGradient.init().
InitCall ==
    /\ CallInit
    /\ lastOp' = IF fg'.isInitialized /\ ~fg.isInitialized THEN "init" ELSE "initNoop"
    /\ UNCHANGED pageVars

Next ==
    \/ InitCall
    \/ Animate
    \/ \E e \in Clients, rect \in Rects : MouseMove(e, rect)
    \/ MouseLeave
    \/ \E win \in WindowSizes : Resize(win)
    \/ Advance

Spec == Init /\ [][Next]_vars

(***************************************************************************)
(* The PreloaderComponent script: calls from the page and the callbacks of *)
(* the host.                                                               *)
(***************************************************************************)
\* pc.fired describes the handler that ran last.
Unfired(w) == [w EXCEPT !.fired = {}]

\* The instance the next constructor call creates.
NextInstance(w) == CHOOSE j \in Instances : ~w.inst[j].made /\ \A h \in 1..(j - 1) : w.inst[h].made

CanConstruct(w) == (\E j \in Instances : ~w.inst[j].made) /\ Len(w.seqs) < MaxShows

Running(w) == {k \in 1..Len(w.seqs) : w.seqs[k].stage \notin {"done", "killed", "dead"}}

PcOnly == UNCHANGED <<fluidVars, variant, pg, escapes>>

ShowPreloader(autoStart) ==
    /\ CanConstruct(pc)
    /\ pc' = showPreloader(Unfired(pc), NextInstance(pc), autoStart)
    /\ PcOnly

HidePreloader(immediate) ==
    /\ pc.preloaderInstance # 0
    /\ immediate \/ pc.inst[pc.preloaderInstance].fades < MaxFades
    /\ pc' = hidePreloader(Unfired(pc), immediate)
    /\ PcOnly

DomContentLoaded(autoInit, autoStart) ==
    /\ ~pc.loaded
    /\ CanConstruct(pc)
    /\ pc' = domContentLoaded(Unfired(pc), NextInstance(pc), autoInit, autoStart)
    /\ PcOnly

\* Calls on a handle the page holds.
Show(i) ==
    /\ pc.inst[i].made
    /\ Len(pc.seqs) < MaxShows
    /\ pc' = show(Unfired(pc), i)
    /\ PcOnly

Hide(i, immediate) ==
    /\ pc.inst[i].made
    /\ immediate \/ pc.inst[i].fades < MaxFades
    /\ pc' = hide(Unfired(pc), i, immediate)
    /\ PcOnly

Destroy(i) ==
    /\ pc.inst[i].made
    /\ pc' = destroy(Unfired(pc), i)
    /\ PcOnly

\* The host runs a pending continuation or callback.
FontsReady(k) ==
    /\ k \in 1..Len(pc.seqs)
    /\ pc.seqs[k].stage = "fonts"
    /\ \E hasGSAP \in SplitResults(pc, k) : pc' = fontsReady(Unfired(pc), k, hasGSAP)
    /\ PcOnly

IntervalTick(k, r) ==
    /\ k \in 1..Len(pc.seqs)
    /\ pc.seqs[k].stage = "interval"
    /\ pc' = intervalTick(Unfired(pc), k, r)
    /\ PcOnly

\* The interval callback runs TicksPerStep times in a row.
IntervalTicks(k, r) ==
    /\ k \in 1..Len(pc.seqs)
    /\ pc.seqs[k].stage = "interval"
    /\ pc' = intervalTicks(Unfired(pc), k, r, TicksPerStep)
    /\ PcOnly

TimelineUpdate(k) ==
    /\ k \in 1..Len(pc.seqs)
    /\ pc.seqs[k].stage \in {"timeline", "progressTimeline"}
    /\ pc' = timelineUpdate(Unfired(pc), k)
    /\ PcOnly

TimelineComplete(k) ==
    /\ k \in 1..Len(pc.seqs)
    /\ pc.seqs[k].stage = "timeline"
    /\ pc' = timelineComplete(Unfired(pc), k)
    /\ PcOnly

ProgressComplete(k) ==
    /\ k \in 1..Len(pc.seqs)
    /\ pc.seqs[k].stage = "progressTimeline"
    /\ pc' = progressComplete(Unfired(pc), k)
    /\ PcOnly

TimerComplete(k) ==
    /\ k \in 1..Len(pc.seqs)
    /\ pc.seqs[k].stage = "timer"
    /\ pc' = timerComplete(Unfired(pc), k)
    /\ PcOnly

FadeDone(i) ==
    /\ pc.inst[i].fades > 0
    /\ pc' = fadeDone([Unfired(pc) EXCEPT !.inst[i].fades = @ - 1], i)
    /\ PcOnly

\* The page with the PreloaderComponent script before any of its code has been
\* called; gsap and SplitText are loaded or not.
InitPc ==
    /\ \E l \in Libraries : pc = [PcNew EXCEPT !.libs = l]
    /\ fg = FluidGradientNew
    /\ now = 0
    /\ window = <<8, 6>>
    /\ canvasPresent = TRUE
    /\ lastOp = "construct"
    /\ moves = <<>>
    /\ left = FALSE
    /\ resized = FALSE
    /\ lastTick = [read |-> "undefined", write |-> "undefined"]
    /\ ticksSince = 0
    /\ variant = "script"
    /\ pg = PreloaderNew(TRUE, TRUE, 3)
    /\ escapes = 0

\* Math.random() is taken at its midpoint here, and the interval callbacks
\* TicksPerStep at a time.
NextPc ==
    \/ \E a \in BOOLEAN : ShowPreloader(a)
    \/ \E m \in BOOLEAN : HidePreloader(m)
    \/ \E a \in BOOLEAN, b \in BOOLEAN : DomContentLoaded(a, b)
    \/ \E i \in Instances : Show(i)
    \/ \E i \in Instances, m \in BOOLEAN : Hide(i, m)
    \/ \E i \in Instances : Destroy(i)
    \/ \E k \in 1..MaxShows : FontsReady(k)
    \/ \E k \in 1..MaxShows : IntervalTicks(k, 5)
    \/ \E k \in 1..MaxShows : TimelineUpdate(k)
    \/ \E k \in 1..MaxShows : TimelineComplete(k)
    \/ \E k \in 1..MaxShows : ProgressComplete(k)
    \/ \E k \in 1..MaxShows : TimerComplete(k)
    \/ \E i \in Instances : FadeDone(i)

SpecPc == InitPc /\ [][NextPc]_vars

\* One component on a page without gsap, started by the DOMContentLoaded
\* listener, with every value of Math.random().
NextProgress ==
    \/ \E a \in BOOLEAN, b \in BOOLEAN : DomContentLoaded(a, b)
    \/ \E k \in 1..MaxShows : FontsReady(k)
    \/ \E k \in 1..MaxShows, r \in Randoms : IntervalTick(k, r)
    \/ \E k \in 1..MaxShows : TimerComplete(k)

InitProgress ==
    /\ InitPc
    /\ pc.libs = "none"

SpecProgress == InitProgress /\ [][NextProgress]_vars

(***************************************************************************)
(* Live tuning: config is a public field of the component, and the page    *)
(* or a console may assign to one of its keys at any time.                 *)
(***************************************************************************)
\* The keys of a config that differ from what the constructor set.
TunedKeys(config) == {k \in ConfigKeys : config[k] # ConfigNew[k]}

\* The values a key is tuned to.
TunedValues(k) ==
    IF k \in ColorKeys THEN {ConfigNew[k], Grey("F")}
    ELSE {ConfigNew[k], ConfigNew[k] + 5}

\* fluidGradient.config[k] = v
SetConfig(k, v) ==
    /\ fg.config[k] # v
    /\ Cardinality(TunedKeys([fg.config EXCEPT ![k] = v])) <= MaxTuned
    /\ fg' = Untick([fg EXCEPT !.config[k] = v])
    /\ lastOp' = "config"
    /\ UNCHANGED <<now, window, canvasPresent, moves, left, resized, lastTick, ticksSince>>
    /\ UNCHANGED pageVars

NextTune ==
    \/ InitCall
    \/ Animate
    \/ \E win \in WindowSizes : Resize(win)
    \/ \E k \in ConfigKeys : \E v \in TunedValues(k) : SetConfig(k, v)

\* The component under a host that delivers every pending animation-frame
\* callback, whatever pointer and resize events arrive in between.  The clock
\* does not enter the question and stands still.
NextLive ==
    \/ InitCall
    \/ Animate
    \/ \E e \in Clients, rect \in Rects : MouseMove(e, rect)
    \/ MouseLeave
    \/ \E win \in WindowSizes : Resize(win)

\* WF_vars(Animate), with ENABLED <<Animate>>_vars written as the guard of
\* Animate (a step of Animate always changes fg.frameCount).
AnimateFair ==
    []<>~(fg.rafPending > 0 /\ fg.frameCount < MaxFrames) \/ []<><<Animate>>_vars

SpecLive == Init /\ [][NextLive]_vars /\ AnimateFair

SpecTune == Init /\ [][NextTune]_vars

(***************************************************************************)
(* hexToRgb on its own: color1 is any string "#" + six characters of       *)
(* HexChars when init() runs setupMaterials, which converts it.            *)
(***************************************************************************)
HexChars == {"0", "9", "f", "F", "g"}

HexColors ==
    {<<"#", a, b, c, d, e, f>> : a \in HexChars, b \in HexChars, c \in HexChars,
                                  d \in HexChars, e \in HexChars, f \in HexChars}

InitHex ==
    /\ \E hex \in HexColors : fg = [FluidGradientNew EXCEPT !.config.color1 = hex]
    /\ now = 0
    /\ window = <<8, 6>>
    /\ canvasPresent = TRUE
    /\ lastOp = "construct"
    /\ moves = <<>>
    /\ left = FALSE
    /\ resized = FALSE
    /\ lastTick = [read |-> "undefined", write |-> "undefined"]
    /\ ticksSince = 0
    /\ variant = "script"
    /\ pg = PreloaderNew(TRUE, TRUE, 3)
    /\ escapes = 0
    /\ pc = PcNew

NextHex == InitCall

SpecHex == InitHex /\ [][NextHex]_vars

(***************************************************************************)
(* Properties.                                                             *)
(***************************************************************************)
\* A tick has just run: the log holds its steps.
TickJustRan == fg.log # <<>>

\* C1: once init() has completed, currentFluidTarget and previousFluidTarget are
\* two different buffers and together are exactly {fluidTarget1, fluidTarget2},
\* after any interleaving of ticks, pointer-move, pointer-leave and resize events.
C1_TwoBuffers ==
    fg.isInitialized =>
        /\ fg.currentFluidTarget # fg.previousFluidTarget
        /\ {fg.currentFluidTarget, fg.previousFluidTarget} = Targets

C1_Witness ==
    /\ fg.isInitialized
    /\ lastOp = "animate"
    /\ Len(moves) = 2
    /\ left
    /\ fg.frameCount = 1
    /\ fg.currentFluidTarget = "fluidTarget1"

\* C2: the buffer roles strictly alternate: in every tick after the first, the
\* simulation pass writes the buffer the previous tick's simulation pass read and
\* reads the buffer it wrote; the roles are exchanged exactly once per tick, so
\* that after two consecutive ticks the assignment is the one before the first.
C2_Alternate ==
    [][ lastOp' = "animate" =>
          /\ lastTick'.write = lastTick.read
          /\ lastTick'.read = lastTick.write
          /\ Count(fg'.log, "swap", "") = 1
          /\ fg'.currentFluidTarget = fg.previousFluidTarget
          /\ fg'.previousFluidTarget = fg.currentFluidTarget
          /\ fg'.currentFluidTarget = lastTick.write
          /\ fg'.previousFluidTarget = lastTick.read ]_vars

C2_Witness ==
    /\ lastOp = "animate"
    /\ fg.frameCount = 2
    /\ lastTick = [read |-> "fluidTarget1", write |-> "fluidTarget2"]
    /\ fg.currentFluidTarget = "fluidTarget1"

\* C3: within one tick the previous buffer is bound as simulation input, the
\* simulation pass writes the current buffer, the buffer just written is bound as
\* display input, the display pass writes to the screen, and only then the roles
\* are swapped; the simulation pass never reads the buffer it writes.
C3_TickOrder ==
    TickJustRan =>
        LET log == fg.log
            sim == SimRender(log)
            disp == DisplayRender(log)
        IN  /\ Count(log, "setUniform", "iPreviousFrame") = 1 /\ Count(log, "render", "fluidPlane") = 1
            /\ Count(log, "setUniform", "iFluid") = 1 /\ Count(log, "render", "displayPlane") = 1
            /\ Count(log, "swap", "") = 1
            /\ Pos(log, "setUniform", "iPreviousFrame") < Pos(log, "render", "fluidPlane")
            /\ Pos(log, "render", "fluidPlane") < Pos(log, "setUniform", "iFluid")
            /\ Pos(log, "setUniform", "iFluid") < Pos(log, "render", "displayPlane")
            /\ Pos(log, "render", "displayPlane") < Pos(log, "swap", "")
            \* the simulation pass read the buffer bound as its input, which the swap
            \* has since made current, and wrote the other one, now previous
            /\ sim.b \in Targets
            /\ TargetOf(sim.c[1]) \in Targets
            /\ sim.c[1] = log[Pos(log, "setUniform", "iPreviousFrame")].b
            /\ TargetOf(sim.c[1]) = fg.currentFluidTarget
            /\ sim.b = fg.previousFluidTarget
            /\ sim.b # TargetOf(sim.c[1])
            \* the display pass reads the buffer just written and draws to the screen
            /\ disp.c[1] = Texture(sim.b)
            /\ disp.b = "null"

C3_Witness ==
    /\ TickJustRan
    /\ lastOp = "animate"
    /\ fg.frameCount = 2
    /\ SimRender(fg.log).b = "fluidTarget2"
    /\ DisplayRender(fg.log).c[1] = "texture2"

\* The uniforms the simulation pass of the tick that just ran was given.
FedMouse == SimRender(fg.log).c[2]
FedFrame == SimRender(fg.log).c[3]

\* A pointer-move event in the canvas-local, Y-flipped coordinate space.
LocalX(m) == m.x - m.rect.left
LocalY(m) == m.rect.height - (m.y - m.rect.top)

\* C4 as stated: at every tick at which at least 100 ms have elapsed since the
\* most recent pointer-move event, the pointer quad given to the simulation pass
\* is (0,0,0,0).
C4_IdleAtLeast100 ==
    (TickJustRan /\ moves # <<>> /\ now - moves[1].t >= 100) => FedMouse = Zero4

\* C4 amended: at every tick at which more than 100 ms have elapsed since the
\* most recent pointer-move event, the pointer quad given to the simulation pass
\* is (0,0,0,0), at that tick and at every later tick until the next pointer-move.
C4_IdleDecay ==
    (TickJustRan /\ moves # <<>> /\ now - moves[1].t > 100) => FedMouse = Zero4

C4_Witness ==
    /\ TickJustRan
    /\ lastOp = "animate"
    /\ moves # <<>>
    /\ ~left
    /\ now - moves[1].t > 100
    /\ FedMouse = Zero4
    /\ fg.mouseX # 0

\* C5: after pointer-moves to A and then to B, a tick that runs before the idle
\* timeout and with no pointer-leave since B gives the simulation pass the quad
\* (B.x, B.y, A.x, A.y) in canvas-local Y-flipped coordinates; the previous
\* position held is the one recorded by the immediately preceding pointer-move.
C5_Quad ==
    /\ (TickJustRan /\ Len(moves) = 2 /\ ~left /\ now - moves[1].t <= IdleTimeout)
         => FedMouse = <<LocalX(moves[1]), LocalY(moves[1]),
                         LocalX(moves[2]), LocalY(moves[2])>>
    /\ Len(moves) = 2
         => /\ fg.mouseX = LocalX(moves[1]) /\ fg.mouseY = LocalY(moves[1])
            /\ fg.prevMouseX = LocalX(moves[2]) /\ fg.prevMouseY = LocalY(moves[2])

C5_Witness ==
    /\ TickJustRan
    /\ lastOp = "animate"
    /\ Len(moves) = 2
    /\ ~left
    /\ moves[1].t - moves[2].t = ClockStep
    /\ now - moves[1].t <= IdleTimeout
    /\ <<moves[1].x, moves[1].y>> # <<moves[2].x, moves[2].y>>
    /\ moves[1].rect # moves[2].rect
    /\ FedMouse # Zero4

\* C6: if no pointer-move occurs between a pointer-leave and the next tick, the
\* pointer quad given to the simulation pass at that tick is (0,0,0,0), also when
\* fewer than 100 ms have elapsed since the last pointer-move.
C6_LeaveIdle ==
    (TickJustRan /\ left) => FedMouse = Zero4

C6_Witness ==
    /\ TickJustRan
    /\ lastOp = "animate"
    /\ left
    /\ moves # <<>>
    /\ now - moves[1].t < 100
    /\ FedMouse = Zero4

\* The pointer is idle: it has left, or a pointer-move was followed by more than
\* 100 ms without movement and a tick has applied the idle decay.
PointerIdle ==
    \/ left
    \/ moves # <<>> /\ now - moves[1].t > IdleTimeout /\ fg.fluidUniforms.iMouse = Zero4

\* C7 as stated: PointerState (currentX, currentY, previousX, previousY) itself is
\* the zero vector once the pointer is idle, and the first pointer-move after an
\* idle timeout or a pointer-leave produces a quad whose previous-position
\* components are (0,0).
C7_PointerStateReset ==
    [][ /\ PointerIdle' =>
            <<fg'.mouseX, fg'.mouseY, fg'.prevMouseX, fg'.prevMouseY>> = Zero4
        /\ (lastOp' = "mousemove" /\ PointerIdle) =>
            /\ fg'.fluidUniforms.iMouse[3] = 0
            /\ fg'.fluidUniforms.iMouse[4] = 0 ]_vars

\* C8: a resize sets the frame count to 0 and leaves the buffer roles as they
\* are, and the first tick after a resize gives the simulation pass iFrame = 0.
C8_ResizeResets ==
    [][ /\ (lastOp' = "resize" /\ fg.isInitialized) =>
            /\ fg'.frameCount = 0
            /\ fg'.currentFluidTarget = fg.currentFluidTarget
            /\ fg'.previousFluidTarget = fg.previousFluidTarget
        /\ (TickJustRan' /\ resized) => FedFrame' = 0 ]_vars

C8_Witness ==
    /\ TickJustRan
    /\ lastOp = "animate"
    /\ FedFrame = 0
    /\ fg.frameCount = 1
    /\ fg.currentFluidTarget = "fluidTarget1"

\* C9: whenever a tick can start, both render targets, the iResolution uniform of
\* both materials and the renderer have the same dimensions, and the simulation
\* pass of every tick draws with a resolution uniform equal to the size of the
\* buffer it writes and of the buffer it reads.
C9_SizesAgree ==
    /\ fg.isInitialized =>
        /\ fg.targetSize["fluidTarget1"] = fg.targetSize["fluidTarget2"]
        /\ fg.fluidUniforms.iResolution = fg.targetSize["fluidTarget1"]
        /\ fg.displayUniforms.iResolution = fg.targetSize["fluidTarget1"]
        /\ fg.rendererSize = fg.targetSize["fluidTarget1"]
    /\ TickJustRan =>
        LET sim == SimRender(fg.log)
        IN  /\ sim.c[5][sim.b] = sim.c[4]
            /\ sim.c[5][TargetOf(sim.c[1])] = sim.c[4]
            /\ DisplayRender(fg.log).c[2] = sim.c[4]

C9_Witness ==
    /\ TickJustRan
    /\ lastOp = "animate"
    /\ fg.frameCount = 1
    /\ fg.rendererSize = <<10, 7>>
    /\ SimRender(fg.log).c[4] = <<10, 7>>

\* C10: init() takes effect at most once: there is never a second renderer, a
\* second set of event listeners or a second pending frame callback, and every
\* init() call made once the component is initialized changes nothing, under every
\* interleaving of the preloader's timers and Escape key presses.
C10_InitOnce ==
    [][ /\ fg'.renderers <= 1
        /\ fg'.listeners <= 1
        /\ fg'.rafPending <= 1
        /\ (fg.isInitialized /\ lastOp' \in {"timerInit", "escapeInit", "initNoop"})
             => Untick(fg') = Untick(fg) ]_vars

C10_Witness ==
    /\ fg.isInitialized
    /\ lastOp \in {"timerInit", "escapeInit"}
    /\ ~TickJustRan
    /\ escapes >= 1
    /\ fg.renderers = 1

\* C11: if the .gradient-canvas element is absent, every init() call returns
\* leaving the component as constructed: isInitialized false, no renderer, no
\* render targets, no event listeners, no pending frame callback, no tick run.
C11_NoCanvasNoInit ==
    ~canvasPresent =>
        /\ fg = FluidGradientNew
        /\ lastTick = [read |-> "undefined", write |-> "undefined"]

C11_Witness ==
    /\ ~canvasPresent
    /\ lastOp = "initNoop"
    /\ ~fg.isInitialized
    /\ fg.renderers = 0 /\ fg.listeners = 0 /\ fg.rafPending = 0

\* C12 as stated: within a tick the request for the next animation-frame
\* callback is the last step, issued after both passes have run, the buffers have
\* been swapped and the frame index has been incremented.
C12_RequestLast ==
    TickJustRan =>
        LET log == fg.log
        IN  /\ Count(log, "requestAnimationFrame", "") = 1
            /\ Pos(log, "requestAnimationFrame", "") = Len(log)
            /\ Pos(log, "requestAnimationFrame", "") > Pos(log, "render", "displayPlane")
            /\ Pos(log, "requestAnimationFrame", "") > Pos(log, "swap", "")
            /\ Pos(log, "requestAnimationFrame", "") > Pos(log, "frameCount++", "")

\* C12 amended: within a tick the request for the next animation-frame callback
\* is issued exactly once and is the first step, before both passes, the swap and
\* the increment of the frame index; the callback it registers is still pending
\* when the tick ends.
C12_RequestFirst ==
    TickJustRan =>
        LET log == fg.log
        IN  /\ Count(log, "requestAnimationFrame", "") = 1
            /\ Pos(log, "requestAnimationFrame", "") = 1
            /\ Pos(log, "requestAnimationFrame", "") < Pos(log, "render", "fluidPlane")
            /\ Pos(log, "requestAnimationFrame", "") < Pos(log, "render", "displayPlane")
            /\ Pos(log, "requestAnimationFrame", "") < Pos(log, "swap", "")
            /\ Pos(log, "requestAnimationFrame", "") < Pos(log, "frameCount++", "")
            /\ fg.rafPending = 1

C12_Witness ==
    /\ TickJustRan
    /\ lastOp = "animate"
    /\ fg.frameCount = 3
    /\ fg.log[1].op = "requestAnimationFrame"
    /\ fg.log[Len(fg.log)].op = "frameCount++"

\* C13: once Running exactly one animation-frame callback is pending between
\* handlers, none before; every callback runs exactly one complete tick, which
\* registers exactly one callback; pointer-move, pointer-leave and resize handlers
\* run outside ticks and register none.
C13_OneLoop ==
    [][ /\ fg'.rafPending = (IF fg'.isInitialized THEN 1 ELSE 0)
        /\ lastOp' = "animate" =>
             /\ fg.rafPending = 1
             /\ fg'.frameCount = fg.frameCount + 1
             /\ Count(fg'.log, "requestAnimationFrame", "") = 1
             /\ Count(fg'.log, "render", "fluidPlane") = 1
             /\ Count(fg'.log, "render", "displayPlane") = 1
             /\ fg'.log[Len(fg'.log)].op = "frameCount++"
        /\ lastOp' \in {"mousemove", "mouseleave", "resize"} =>
             /\ fg'.rafPending = fg.rafPending
             /\ ~TickJustRan' ]_vars

C13_Witness ==
    /\ fg.isInitialized
    /\ lastOp = "animate"
    /\ fg.rafPending = 1
    /\ fg.frameCount = 2
    /\ Len(moves) = 2
    /\ resized = FALSE

\* C14: the frame index fed to the simulation pass of a tick is the number of
\* ticks completed since init() or since the most recent resize (0 on the first
\* such tick), frameCount is that number after every handler, and every tick
\* raises frameCount by exactly one.
C14_FrameIndex ==
    [][ /\ fg'.frameCount = ticksSince'
        /\ TickJustRan' =>
             /\ FedFrame' = ticksSince
             /\ SimRender(fg'.log).c[3] = ticksSince' - 1
             /\ fg'.frameCount = fg.frameCount + 1 ]_vars

C14_Witness ==
    /\ TickJustRan
    /\ ticksSince = 2
    /\ FedFrame = 1
    /\ lastOp = "animate"
    /\ window # fg.rendererSize \/ Len(moves) = 2

\* The uniforms written by the steps recorded in a log.
UniformsWritten(log) == {log[i].a : i \in {j \in 1..Len(log) : log[j].op = "setUniform"}}

\* The tunable uniforms of both materials.
Tunables(s) == <<s.fluidUniforms.tunables, s.displayUniforms.tunables>>
FromConfig(config) == <<FluidTunables(config), DisplayTunables(config)>>

\* C16 as stated: after every tick the resolution uniforms hold the window size
\* and every tunable uniform holds the value config has for it, also when the
\* value was changed between two ticks.
C16_UniformsFollowConfig ==
    TickJustRan =>
        /\ fg.fluidUniforms.iResolution = window
        /\ fg.displayUniforms.iResolution = window
        /\ Tunables(fg) = FromConfig(fg.config)

\* C16 amended: a tick writes iTime, iFrame, iPreviousFrame and iFluid (and
\* iMouse when idle) and no other uniform; the tunable uniforms are computed
\* from config once, by init(), and no tick or later change of config alters
\* them; the resolution uniforms are written by init() and by the resize handler
\* and hold the window size at every tick.
C16_TunablesSetOnce ==
    [][ /\ (fg'.isInitialized /\ ~fg.isInitialized) => Tunables(fg') = FromConfig(fg.config)
        /\ fg.isInitialized => Tunables(fg') = Tunables(fg)
        /\ TickJustRan' =>
             /\ {"iTime", "iFrame", "iPreviousFrame", "iFluid"} \subseteq UniformsWritten(fg'.log)
             /\ UniformsWritten(fg'.log) \subseteq
                    {"iTime", "iFrame", "iPreviousFrame", "iFluid", "iMouse"}
             /\ fg'.fluidUniforms.iResolution = window'
             /\ fg'.displayUniforms.iResolution = window' ]_vars

C16_Witness ==
    /\ TickJustRan
    /\ lastOp = "animate"
    /\ fg.config.brushSize # ConfigNew.brushSize
    /\ fg.fluidUniforms.tunables.uBrushSize = ConfigNew.brushSize
    /\ Tunables(fg) # FromConfig(fg.config)

\* A string of the form #RRGGBB.
ValidHex(hex) ==
    /\ Len(hex) = 7
    /\ hex[1] = "#"
    /\ \A i \in 2..7 : DigitValue(hex[i]) >= 0

\* C18: for a colour string #RRGGBB with digits of either case, component i of
\* hexToRgb is the value (0..255) of the i-th pair of digits divided by 255 and
\* lies in [0, 1]; #000000 gives (0, 0, 0) and #FFFFFF gives (1, 1, 1).
C18_HexToRgb ==
    /\ fg.isInitialized =>
         LET hex == fg.config.color1
             rgb == fg.displayUniforms.tunables.uColor1
         IN  ValidHex(hex) =>
                 \A i \in 1..3 :
                     /\ ~rgb[i].nan
                     /\ rgb[i].num = 16 * DigitValue(hex[2 * i]) + DigitValue(hex[2 * i + 1])
                     /\ rgb[i].den = 255
                     /\ 0 <= rgb[i].num /\ rgb[i].num <= rgb[i].den
    /\ \A i \in 1..3 :
         /\ hexToRgb(Grey("0"))[i] = [nan |-> FALSE, num |-> 0, den |-> 255]
         /\ hexToRgb(Grey("F"))[i] = [nan |-> FALSE, num |-> 255, den |-> 255]
         /\ hexToRgb(Grey("f"))[i] = hexToRgb(Grey("F"))[i]

C18_Witness ==
    /\ fg.isInitialized
    /\ fg.config.color1 = <<"#", "F", "f", "0", "9", "9", "F">>
    /\ fg.displayUniforms.tunables.uColor1[1].num = 255
    /\ fg.displayUniforms.tunables.uColor1[2].num = 9
    /\ fg.displayUniforms.tunables.uColor1[3].num = 159

\* The component with its pointer state (and the log of the last tick) blanked.
Unpointed(s) ==
    [s EXCEPT !.mouseX = 0, !.mouseY = 0, !.prevMouseX = 0, !.prevMouseY = 0,
              !.lastMoveTime = 0, !.fluidUniforms.iMouse = Zero4, !.log = <<>>]

\* The component with its two resolution uniforms blanked.
Unresolved(s) ==
    [s EXCEPT !.fluidUniforms.iResolution = <<0, 0>>,
              !.displayUniforms.iResolution = <<0, 0>>]

\* The component with everything the resize handler assigns blanked.
Unsized(s) ==
    [Unresolved(s) EXCEPT !.rendererSize = <<0, 0>>,
                          !.targetSize = [t \in Targets |-> <<0, 0>>],
                          !.frameCount = 0,
                          !.log = <<>>]

\* C17 as stated: the pointer-move, pointer-leave and resize handlers write
\* nothing but pointer state and the resolution uniforms.
C17_HandlersPointerAndResolutionOnly ==
    [][ lastOp' \in {"mousemove", "mouseleave", "resize"} =>
            Unresolved(Unpointed(fg')) = Unresolved(Unpointed(fg)) ]_vars

\* C17 amended: a pointer-move or pointer-leave event changes only pointer state
\* (mouseX/Y, prevMouseX/Y, lastMoveTime, iMouse); the resize handler changes only
\* the renderer size, the two resolution uniforms, the dimensions of both buffers
\* and frameCount; no handler changes which buffer is current and which previous.
C17_HandlerFrames ==
    [][ /\ lastOp' \in {"mousemove", "mouseleave"} => Unpointed(fg') = Unpointed(fg)
        /\ lastOp' = "resize" => Unsized(fg') = Unsized(fg)
        /\ lastOp' \in {"mousemove", "mouseleave", "resize"} =>
             /\ fg'.currentFluidTarget = fg.currentFluidTarget
             /\ fg'.previousFluidTarget = fg.previousFluidTarget ]_vars

C17_Witness ==
    /\ lastOp = "mouseleave"
    /\ fg.frameCount = 2
    /\ fg.mouseX # 0
    /\ fg.fluidUniforms.iMouse = Zero4
    /\ fg.currentFluidTarget = "fluidTarget1"
    /\ fg.targetSize["fluidTarget1"] = window

\* C15: once init() has completed the component stays initialized with a frame
\* callback pending after every handler, and, with every pending callback
\* delivered, a further tick runs after any tick and any pointer-move,
\* pointer-leave or resize events (as long as the frame index is below MaxFrames,
\* where the model stops counting).
C15_KeepsTicking ==
    /\ [][fg.isInitialized => fg'.isInitialized /\ fg'.rafPending >= 1]_vars
    /\ \A t \in Targets :
         (fg.isInitialized /\ fg.frameCount < MaxFrames /\ lastTick.write = t)
             ~> (lastTick.write # t)

C15_Witness ==
    /\ fg.isInitialized
    /\ lastOp = "animate"
    /\ ticksSince = 1
    /\ left
    /\ Len(moves) = 2
    /\ fg.rafPending = 1

\* C19: over the natural end of the reveal animation and any number of Escape
\* presses completeAnimation (and with it onComplete) runs at most once, and once
\* Escape has been pressed no reveal tween is left to call it.
C19_CompletesOnce ==
    /\ pg.completes <= 1
    /\ escapes > 0 => pg.tweens = <<>>

\* C20 as stated: without user input completeAnimation is eventually called for
\* every page structure; so when no key has been pressed and no reveal tween is
\* left to end, it has been called.
C20_CompletesWithoutInput ==
    (escapes = 0 /\ pg.tweens = <<>>) => pg.completes >= 1

\* C20 amended: when the #preloader element exists and the page has at least
\* three '.revealer svg' elements, then without user input completeAnimation is
\* eventually called (once), mainContent, if it exists, gets "loaded", and
\* fluidGradient.init() is eventually invoked; on any other page it is never
\* called as long as no key is pressed.
C20_CompletesWhenWellFormed ==
    /\ (pg.preloader # "absent" /\ pg.svgs >= 3)
            ~> (/\ pg.completes = 1
                /\ pg.mainPresent => pg.mainLoaded
                /\ pg.initCalls >= 1
                /\ fg.isInitialized \/ ~canvasPresent)
    /\ []((escapes = 0 /\ (pg.preloader = "absent" \/ pg.svgs < 3)) =>
             (pg.completes = 0 /\ pg.initCalls = 0 /\ ~pg.mainLoaded))

C20_Witness ==
    /\ escapes = 0
    /\ pg.svgs >= 3
    /\ pg.completes = 1
    /\ pg.mainLoaded
    /\ pg.initCalls = 1
    /\ fg.isInitialized
    /\ pg.preloader = "removed"

\* C21: under every interleaving of the onComplete timer and Escape presses the
\* text animation is set up (paragraphs split into words, scroll animations
\* registered) at most once per page load.
C21_TextSetupOnce == pg.textSetups <= 1

\* The show sequences of instance i that have not ended.
RunningOf(i) == {k \in Running(pc) : pc.seqs[k].inst = i}

\* C22: for one PreloaderComponent instance at most one show sequence is in
\* progress at any time, after any interleaving of show(), hide(true) and hide().
C22_OneSequence ==
    \A i \in Instances : Cardinality(RunningOf(i)) <= 1

\* C23 as stated: for every constructed instance isActive is false exactly when
\* its overlay carries 'hidden' or has been removed from the document.
C23_InactiveIffHidden ==
    \A i \in Instances :
        pc.inst[i].made =>
            (~pc.inst[i].isActive <=>
                 (pc.inst[i].overlay.hidden \/ ~pc.inst[i].overlay.inDoc))

\* C23 amended: whenever the overlay of an instance that has not been destroyed
\* carries 'hidden', isActive is false; the overlay of a destroyed instance is
\* out of the document.
C23_HiddenImpliesInactive ==
    \A i \in Instances :
        pc.inst[i].made =>
            /\ (~pc.inst[i].destroyed /\ pc.inst[i].overlay.hidden) => ~pc.inst[i].isActive
            /\ pc.inst[i].destroyed => ~pc.inst[i].overlay.inDoc

C23_Witness ==
    \E i \in Instances :
        /\ pc.inst[i].made
        /\ pc.inst[i].overlay.hidden
        /\ pc.inst[i].overlay.inDoc
        /\ ~pc.inst[i].isActive
        /\ RunningOf(i) # {}

\* C24: once an instance is destroyed, no pending callback of it invokes
\* onProgress or onComplete, dispatches 'preloaderComplete' or raises an error
\* (an error raised by a new show() call on the destroyed instance aside).
C24_InertAfterDestroy ==
    [][ \A i \in Instances :
            pc.inst[i].destroyed =>
                \A f \in pc'.fired :
                    f[1] = i =>
                        /\ f[2] = "TypeError"
                        /\ ~pc.inst[i].isActive
                        /\ pc'.inst[i].isActive ]_vars

\* An instance that is not destroyed and has a show sequence that will complete.
Live(i) == pc.inst[i].made /\ ~pc.inst[i].destroyed /\ RunningOf(i) # {}

\* C25: at most one overlay is in the document and at most one instance is
\* live, under any ordering of showPreloader calls and DOMContentLoaded.
C25_OneOverlayOneLive ==
    /\ Cardinality({i \in Instances : pc.inst[i].overlay.inDoc}) <= 1
    /\ Cardinality({i \in Instances : Live(i)}) <= 1

\* The most interval callbacks a sequence can take: each adds at least
\* Increment(0) until the value is clamped.
StepBound == (Full + Increment(0) - 1) \div Increment(0)

\* C26: the fallback progress value never decreases, never exceeds 100, every
\* value given to onProgress lies in [0, 1], the value reaches 100 within
\* StepBound callbacks whatever Math.random() returns, and once it has, the
\* interval is cleared: the sequence has left the interval for good, the value
\* stays and onProgress is not called again.
C26_ProgressTerminates ==
    [][ \A k \in 1..Len(pc'.seqs) :
            LET q == pc'.seqs[k]
            IN  /\ q.progress \in 0..Full
                /\ q.ticks <= StepBound
                /\ q.progress = Full \/ q.progress >= q.ticks * Increment(0)
                /\ q.stage = "interval" => q.progress < Full
                /\ q.stage \in {"timer", "done"} => q.progress = Full
                /\ \A f \in pc'.fired : f[2] = "onProgress" => f[3] \in 1..Full
                /\ k <= Len(pc.seqs) =>
                     /\ q.progress >= pc.seqs[k].progress
                     /\ pc.seqs[k].stage \in {"timer", "done"} =>
                          /\ q.stage \in {"timer", "done"}
                          /\ q.ticks = pc.seqs[k].ticks
                          /\ \A f \in pc'.fired : f[2] # "onProgress" ]_vars

C26_Witness ==
    \E k \in 1..Len(pc.seqs) :
        /\ pc.seqs[k].stage = "done"
        /\ pc.seqs[k].ticks = StepBound
        /\ pc.seqs[k].progress = Full
        /\ <<pc.seqs[k].inst, "onComplete", 0>> \in pc.fired

====
